---- MODULE Spec2Model ----
(***************************************************************************)
(* Turn-rotation scheduler of the web controller server (src/src/server.ts) *)
(*                                                                         *)
(* One action per socket.io event handler or timer callback.  Node runs    *)
(* each handler to completion, so an action is the whole handler with the  *)
(* functions it calls (handleTimeUp, processEndOfRound, prepareRound,      *)
(* startRound).  Those functions are operators on a record of the module-  *)
(* level variables of server.ts plus the list `out` of the notifications   *)
(* the handler has emitted so far.                                         *)
(*                                                                         *)
(* Not modelled: the player's display name (an opaque payload that the     *)
(* server copies and never inspects; the socket id stands for it), and the *)
(* wall clock (roundEndTime and the `remaining` payload of timeUpdate).    *)
(* Timers are kept in creation order; see CanFire for the firing orders    *)
(* that the two fixed durations allow.                                     *)
(***************************************************************************)
EXTENDS Integers, Sequences, FiniteSets, TLC

\* ---- bounds --------------------------------------------------------------
MaxSockets == 3      \* connections opened during a run (socket ids 1..MaxSockets)
MaxPending == 3      \* joinGame is accepted while queue + pending timers < MaxPending
MaxScore == 1        \* scores reported by the game client range over 0..MaxScore
LivePending == 2     \* under FairSpec, joinGame is accepted while queue + pending timers < LivePending

Sockets == 1 .. MaxSockets
Scores == 0 .. MaxScore

\* ---- values --------------------------------------------------------------
Null == 0                                   \* null socket / null timer handle
Broadcast == -1                             \* target of io.emit(...)
NoPlayer == [id |-> 0, score |-> 0]         \* activePlayer = null
ClientTypes == {"game_client", "web_controller", "other"}

VARIABLES
  connected,          \* ids of the sockets that are connected
  closed,             \* ids of the sockets that have disconnected (ids are never reused)
  playerQueue,        \* let playerQueue: Player[]
  activePlayer,       \* let activePlayer: Player | null
  timers,             \* pending setTimeout callbacks, in creation order
  roundTimer,         \* let roundTimer: handle of a pending round timer, or Null
  gameClientSocket,   \* let gameClientSocket: Socket | null (its id, or Null)
  countdownTimer,     \* let countdownTimer: TRUE once the 1 s interval is armed
  event,              \* the event the last step handled, and the socket it came from
  emitted,            \* notifications emitted by the last step, in order
  lastQueueUpdate,    \* history: the last queueUpdate sent to each waiting socket id
  finalScoreRequested,\* history: requestFinalScore was sent for the current round
  roundReported,      \* history: a requested report finalized a round, no request since
  lastKnownScore,     \* history: the latest accepted updateScore of the current round
  unserved            \* history: connected sessions enqueued and not sent yourTurn since,
                      \*          in the order of their oldest such enqueue

vars == <<connected, closed, playerQueue, activePlayer, timers, roundTimer,
          gameClientSocket, countdownTimer, event, emitted, lastQueueUpdate,
          finalScoreRequested, roundReported, lastKnownScore, unserved>>

\* ---- records -------------------------------------------------------------
\* const newPlayer: Player = { id: socket.id, name, score: 0, userId: socket.id }
Player(s) == [id |-> s, score |-> 0]

Msg(to, type, a, b) == [to |-> to, type |-> type, a |-> a, b |-> b]

PrepareTimer(player) == [kind |-> "prepare", player |-> player, handle |-> Null]
RoundTimer(h) == [kind |-> "round", player |-> NoPlayer, handle |-> h]

NoUpdate == [position |-> 0, total |-> 0]

\* The module-level variables of server.ts as one record, with no output yet.
Cur ==
  [playerQueue |-> playerQueue, activePlayer |-> activePlayer, timers |-> timers,
   roundTimer |-> roundTimer, gameClientSocket |-> gameClientSocket,
   countdownTimer |-> countdownTimer, out |-> <<>>]

Emit(st, to, type, a, b) == [st EXCEPT !.out = Append(@, Msg(to, type, a, b))]

\* gameClientSocket.emit(...) guarded by `if (gameClientSocket)`
EmitToGame(st, type, a, b) ==
  IF st.gameClientSocket # Null THEN Emit(st, st.gameClientSocket, type, a, b) ELSE st

\* playerQueue.forEach((player, index) => io.to(player.id).emit('queueUpdate', ...))
RECURSIVE QueueUpdatesFrom(_, _)
QueueUpdatesFrom(st, index) ==
  IF index > Len(st.playerQueue) THEN st
  ELSE QueueUpdatesFrom(
         Emit(st, st.playerQueue[index].id, "queueUpdate", index, Len(st.playerQueue)),
         index + 1)

EmitQueueUpdates(st) == QueueUpdatesFrom(st, 1)

\* clearTimeout(handle): the pending round timer with that handle is dropped
ClearTimeout(ts, h) == SelectSeq(ts, LAMBDA t : ~(t.kind = "round" /\ t.handle = h))

\* setTimeout returns a handle distinct from every pending one
FreshHandle(ts) ==
  CHOOSE h \in 1 .. (Len(ts) + 1) :
    /\ \A i \in 1 .. Len(ts) : ts[i].handle # h
    /\ \A g \in 1 .. (h - 1) : \E i \in 1 .. Len(ts) : ts[i].handle = g

\* ---- core functions ------------------------------------------------------
prepareRound(st, player) ==
  LET s1 == Emit(st, player.id, "prepareToPlay", 0, 0)
  IN  [s1 EXCEPT !.timers = Append(@, PrepareTimer(player))]

\* startRound with a fault: the new holder takes over the score of the holder it
\* replaces.
startRound_KeepsScore(st, player) ==
  LET s1 == [st EXCEPT !.activePlayer = [player EXCEPT !.score = st.activePlayer.score]]
      s2 == Emit(s1, player.id, "yourTurn", 0, 0)
      s3 == EmitToGame(s2, "roundStart", player.id, 0)
      h  == FreshHandle(s3.timers)
  IN  [s3 EXCEPT !.roundTimer = h,
                 !.timers = Append(@, RoundTimer(h)),
                 !.countdownTimer = TRUE]

startRound(st, player) ==
  LET s1 == [st EXCEPT !.activePlayer = player]
      s2 == Emit(s1, player.id, "yourTurn", 0, 0)
      s3 == EmitToGame(s2, "roundStart", player.id, 0)
      h  == FreshHandle(s3.timers)
  IN  [s3 EXCEPT !.roundTimer = h,
                 !.timers = Append(@, RoundTimer(h)),
                 !.countdownTimer = TRUE]

\* processEndOfRound with a fault: `activePlayer = null` (line 96) is left out.
processEndOfRound_KeepsHolder(st, finalScore) ==
  IF st.activePlayer = NoPlayer THEN st
  ELSE
    LET s1 == [st EXCEPT !.activePlayer.score = finalScore]
        s2 == EmitToGame(s1, "recordGameSession", s1.activePlayer.id, s1.activePlayer.score)
        s4 == Emit(s2, s2.activePlayer.id, "gameOver", s2.activePlayer.score, 0)
    IN  IF Len(s4.playerQueue) > 0
        THEN LET nextPlayer == Head(s4.playerQueue)
                 s5 == [s4 EXCEPT !.playerQueue = Tail(@)]
             IN  EmitQueueUpdates(prepareRound(s5, nextPlayer))
        ELSE EmitToGame(Emit(s4, Broadcast, "gameAvailable", 0, 0),
                        "waitingForPlayers", 0, 0)

\* processEndOfRound with a fault: playerQueue.pop() in place of playerQueue.shift().
processEndOfRound_PopsLast(st, finalScore) ==
  IF st.activePlayer = NoPlayer THEN st
  ELSE
    LET s1 == [st EXCEPT !.activePlayer.score = finalScore]
        s2 == EmitToGame(s1, "recordGameSession", s1.activePlayer.id, s1.activePlayer.score)
        s3 == Emit(s2, s2.activePlayer.id, "gameOver", s2.activePlayer.score, 0)
        s4 == [s3 EXCEPT !.activePlayer = NoPlayer]
    IN  IF Len(s4.playerQueue) > 0
        THEN LET nextPlayer == s4.playerQueue[Len(s4.playerQueue)]
                 s5 == [s4 EXCEPT !.playerQueue = SubSeq(@, 1, Len(@) - 1)]
             IN  EmitQueueUpdates(prepareRound(s5, nextPlayer))
        ELSE EmitToGame(Emit(s4, Broadcast, "gameAvailable", 0, 0),
                        "waitingForPlayers", 0, 0)

\* processEndOfRound with a fault: `activePlayer.score = finalScore` (line 75) is
\* left out, so the round ends with the last score of updateScore.
processEndOfRound_KeepsScore(st, finalScore) ==
  IF st.activePlayer = NoPlayer THEN st
  ELSE
    LET s2 == EmitToGame(st, "recordGameSession", st.activePlayer.id, st.activePlayer.score)
        s3 == Emit(s2, s2.activePlayer.id, "gameOver", s2.activePlayer.score, 0)
        s4 == [s3 EXCEPT !.activePlayer = NoPlayer]
    IN  IF Len(s4.playerQueue) > 0
        THEN LET nextPlayer == Head(s4.playerQueue)
                 s5 == [s4 EXCEPT !.playerQueue = Tail(@)]
             IN  EmitQueueUpdates(prepareRound(s5, nextPlayer))
        ELSE EmitToGame(Emit(s4, Broadcast, "gameAvailable", 0, 0),
                        "waitingForPlayers", 0, 0)

\* processEndOfRound with a fault: step 4 never starts the next player (lines
\* 99-107 are left out), so the queue does not advance.
processEndOfRound_NoNext(st, finalScore) ==
  IF st.activePlayer = NoPlayer THEN st
  ELSE
    LET s1 == [st EXCEPT !.activePlayer.score = finalScore]
        s2 == EmitToGame(s1, "recordGameSession", s1.activePlayer.id, s1.activePlayer.score)
        s3 == Emit(s2, s2.activePlayer.id, "gameOver", s2.activePlayer.score, 0)
        s4 == [s3 EXCEPT !.activePlayer = NoPlayer]
    IN  EmitToGame(Emit(s4, Broadcast, "gameAvailable", 0, 0), "waitingForPlayers", 0, 0)

processEndOfRound(st, finalScore) ==
  IF st.activePlayer = NoPlayer THEN st
  ELSE
    LET s1 == [st EXCEPT !.activePlayer.score = finalScore]
        s2 == EmitToGame(s1, "recordGameSession", s1.activePlayer.id, s1.activePlayer.score)
        s3 == Emit(s2, s2.activePlayer.id, "gameOver", s2.activePlayer.score, 0)
        s4 == [s3 EXCEPT !.activePlayer = NoPlayer]
    IN  IF Len(s4.playerQueue) > 0
        THEN LET nextPlayer == Head(s4.playerQueue)
                 s5 == [s4 EXCEPT !.playerQueue = Tail(@)]
             IN  EmitQueueUpdates(prepareRound(s5, nextPlayer))
        ELSE EmitToGame(Emit(s4, Broadcast, "gameAvailable", 0, 0),
                        "waitingForPlayers", 0, 0)

\* handleTimeUp with a fault: with no game client the round ends with score 0
\* in place of the last known score.
handleTimeUp_ZeroScore(st) ==
  LET s1 == [st EXCEPT !.timers = IF st.roundTimer # Null
                                  THEN ClearTimeout(@, st.roundTimer) ELSE @,
                       !.roundTimer = Null]
  IN  IF s1.activePlayer # NoPlayer /\ s1.gameClientSocket # Null
      THEN Emit(s1, s1.gameClientSocket, "requestFinalScore", 0, 0)
      ELSE IF s1.activePlayer # NoPlayer
           THEN processEndOfRound(s1, 0)
           ELSE s1

\* handleTimeUp with a fault: the `else if (activePlayer)` branch (lines 63-65)
\* is left out, so with no game client the round is not ended.
handleTimeUp_NoFallback(st) ==
  LET s1 == [st EXCEPT !.timers = IF st.roundTimer # Null
                                  THEN ClearTimeout(@, st.roundTimer) ELSE @,
                       !.roundTimer = Null]
  IN  IF s1.activePlayer # NoPlayer /\ s1.gameClientSocket # Null
      THEN Emit(s1, s1.gameClientSocket, "requestFinalScore", 0, 0)
      ELSE s1

handleTimeUp(st) ==
  LET s1 == [st EXCEPT !.timers = IF st.roundTimer # Null
                                  THEN ClearTimeout(@, st.roundTimer) ELSE @,
                       !.roundTimer = Null]
  IN  IF s1.activePlayer # NoPlayer /\ s1.gameClientSocket # Null
      THEN Emit(s1, s1.gameClientSocket, "requestFinalScore", 0, 0)
      ELSE IF s1.activePlayer # NoPlayer
           THEN processEndOfRound(s1, s1.activePlayer.score)
           ELSE s1

\* ---- history -------------------------------------------------------------
\* History variables are folds over the notifications of a step; no handler
\* reads them.
RECURSIVE ApplyQueueUpdates(_, _)
ApplyQueueUpdates(last, out) ==
  IF out = <<>> THEN last
  ELSE LET m == Head(out)
       IN  ApplyQueueUpdates(
             IF m.type = "queueUpdate"
             THEN [last EXCEPT ![m.to] = [position |-> m.a, total |-> m.b]]
             ELSE last,
             Tail(out))

\* A round begins at yourTurn and ends at gameOver.
RECURSIVE ApplyRequested(_, _)
ApplyRequested(req, out) ==
  IF out = <<>> THEN req
  ELSE LET m == Head(out)
       IN  ApplyRequested(
             IF m.type = "requestFinalScore" THEN TRUE
             ELSE IF m.type \in {"gameOver", "yourTurn"} THEN FALSE
             ELSE req,
             Tail(out))

\* recordGameSession is emitted only when a round is finalized with the game
\* client bound, which only its submitFinalScore does.  The report counts when
\* it answers a requestFinalScore of that round (req).
RECURSIVE ApplyReported(_, _, _)
ApplyReported(rep, req, out) ==
  IF out = <<>> THEN rep
  ELSE LET m == Head(out)
       IN  ApplyReported(
             IF m.type = "recordGameSession" THEN req
             ELSE IF m.type = "requestFinalScore" THEN FALSE
             ELSE rep,
             ApplyRequested(req, <<m>>),
             Tail(out))

RECURSIVE ApplyLastKnown(_, _)
ApplyLastKnown(score, out) ==
  IF out = <<>> THEN score
  ELSE LET m == Head(out)
       IN  ApplyLastKnown(
             IF m.type = "scoreUpdate" THEN m.a
             ELSE IF m.type \in {"gameOver", "yourTurn"} THEN 0
             ELSE score,
             Tail(out))

InQueue(queue, s) == \E i \in 1 .. Len(queue) : queue[i].id = s

\* joinGame emits queueUpdate exactly when it enqueues the sender.
RECURSIVE ApplyUnserved(_, _, _)
ApplyUnserved(line, ev, out) ==
  IF out = <<>> THEN line
  ELSE LET m == Head(out)
       IN  ApplyUnserved(
             IF m.type = "yourTurn" THEN SelectSeq(line, LAMBDA s : s # m.to)
             ELSE IF m.type = "queueUpdate" /\ ev.type = "joinGame"
                       /\ \A i \in 1 .. Len(line) : line[i] # m.to
                  THEN Append(line, m.to)
                  ELSE line,
             ev, Tail(out))

Event(type, s) == [type |-> type, socket |-> s]

\* The handler of event ev returns: its result st becomes the next state, and
\* the sockets in `gone` are disconnected.
Commit(ev, st, gone) ==
  /\ connected' = (connected \cup (IF ev.type = "connection" THEN {ev.socket} ELSE {})) \ gone
  /\ closed' = closed \cup gone
  /\ event' = ev
  /\ playerQueue' = st.playerQueue
  /\ activePlayer' = st.activePlayer
  /\ timers' = st.timers
  /\ roundTimer' = st.roundTimer
  /\ gameClientSocket' = st.gameClientSocket
  /\ countdownTimer' = st.countdownTimer
  /\ emitted' = st.out
  /\ lastQueueUpdate' =
       LET last == ApplyQueueUpdates(lastQueueUpdate, st.out)
       IN  [s \in Sockets |-> IF InQueue(st.playerQueue, s) THEN last[s] ELSE NoUpdate]
  /\ finalScoreRequested' = ApplyRequested(finalScoreRequested, st.out)
  /\ roundReported' = (/\ st.gameClientSocket # Null
                       /\ ApplyReported(roundReported, finalScoreRequested, st.out))
  /\ lastKnownScore' = ApplyLastKnown(lastKnownScore, st.out)
  /\ unserved' = SelectSeq(ApplyUnserved(unserved, ev, st.out), LAMBDA s : s \notin gone)

\* ---- event handlers ------------------------------------------------------
\* the disconnect handler with a fault: `gameClientSocket = null` (line 259) is
\* left out, so handleTimeUp still sees a game client.
onDisconnect_KeepsBinding(st, s) ==
  IF st.gameClientSocket # Null /\ s = st.gameClientSocket
  THEN IF st.activePlayer # NoPlayer THEN handleTimeUp(st) ELSE st
  ELSE IF st.activePlayer # NoPlayer /\ s = st.activePlayer.id
       THEN handleTimeUp(st)
       ELSE IF \E i \in 1 .. Len(st.playerQueue) : st.playerQueue[i].id = s
            THEN LET queueIndex ==
                       CHOOSE i \in 1 .. Len(st.playerQueue) :
                         /\ st.playerQueue[i].id = s
                         /\ \A j \in 1 .. (i - 1) : st.playerQueue[j].id # s
                     s1 == [st EXCEPT !.playerQueue =
                              SubSeq(@, 1, queueIndex - 1) \o SubSeq(@, queueIndex + 1, Len(@))]
                 IN  EmitQueueUpdates(s1)
            ELSE st

\* socket.on('disconnect', ...)
onDisconnect(st, s) ==
  IF st.gameClientSocket # Null /\ s = st.gameClientSocket
  THEN LET s1 == [st EXCEPT !.gameClientSocket = Null]
       IN  IF s1.activePlayer # NoPlayer THEN handleTimeUp(s1) ELSE s1
  ELSE IF st.activePlayer # NoPlayer /\ s = st.activePlayer.id
       THEN handleTimeUp(st)
       ELSE IF \E i \in 1 .. Len(st.playerQueue) : st.playerQueue[i].id = s
            THEN LET queueIndex ==
                       CHOOSE i \in 1 .. Len(st.playerQueue) :
                         /\ st.playerQueue[i].id = s
                         /\ \A j \in 1 .. (i - 1) : st.playerQueue[j].id # s
                     s1 == [st EXCEPT !.playerQueue =
                              SubSeq(@, 1, queueIndex - 1) \o SubSeq(@, queueIndex + 1, Len(@))]
                 IN  EmitQueueUpdates(s1)
            ELSE st

\* socket.on('register', ...): TRUE in .drop when the handler calls socket.disconnect()
onRegister(st, s, client_type) ==
  IF client_type = "game_client"
  THEN IF st.gameClientSocket # Null
       THEN [st |-> onDisconnect(st, s), drop |-> TRUE]
       ELSE LET s1 == [st EXCEPT !.gameClientSocket = s]
            IN  [st |-> IF s1.activePlayer = NoPlayer
                        THEN Emit(s1, s, "waitingForPlayers", 0, 0) ELSE s1,
                 drop |-> FALSE]
  ELSE IF client_type = "web_controller"
       THEN [st |-> Emit(st, s, "connectionStatus",
                         IF st.activePlayer # NoPlayer THEN 1 ELSE 0, 0),
             drop |-> FALSE]
       ELSE [st |-> onDisconnect(st, s), drop |-> TRUE]

\* the joinGame handler with a fault: playerQueue.unshift(newPlayer) in place of
\* playerQueue.push(newPlayer) (line 225).
onJoinGame_Unshift(st, s) ==
  IF s = st.gameClientSocket THEN st
  ELSE LET newPlayer == Player(s)
       IN  IF st.activePlayer = NoPlayer /\ Len(st.playerQueue) = 0
           THEN prepareRound(st, newPlayer)
           ELSE LET s1 == [st EXCEPT !.playerQueue = <<newPlayer>> \o @]
                IN  Emit(s1, s, "queueUpdate", Len(s1.playerQueue), Len(s1.playerQueue))

\* socket.on('joinGame', ...)
onJoinGame(st, s) ==
  IF s = st.gameClientSocket THEN st
  ELSE LET newPlayer == Player(s)
       IN  IF st.activePlayer = NoPlayer /\ Len(st.playerQueue) = 0
           THEN prepareRound(st, newPlayer)
           ELSE LET s1 == [st EXCEPT !.playerQueue = Append(@, newPlayer)]
                IN  Emit(s1, s, "queueUpdate", Len(s1.playerQueue), Len(s1.playerQueue))

\* the move handler with a fault: `socket.id === activePlayer.id` (line 235) is
\* left out, so any session's move is forwarded while a round is active.
onMove_Unchecked(st, s) ==
  IF st.activePlayer # NoPlayer
  THEN EmitToGame(st, "gameAction", 0, 0)
  ELSE st

\* socket.on('move', ...)
onMove(st, s) ==
  IF st.activePlayer # NoPlayer /\ s = st.activePlayer.id
  THEN EmitToGame(st, "gameAction", 0, 0)
  ELSE st

\* the endGame handler with a fault: `socket.id === activePlayer.id` (line 246)
\* is left out, so any session ends the holder's turn.
onEndGame_Unchecked(st, s) ==
  IF st.activePlayer # NoPlayer THEN handleTimeUp(st) ELSE st

\* socket.on('endGame', ...)
onEndGame(st, s) ==
  IF st.activePlayer # NoPlayer /\ s = st.activePlayer.id THEN handleTimeUp(st) ELSE st

\* socket.on('submitFinalScore', ...), a listener only the registered game client has
onSubmitFinalScore(st, s, score) ==
  IF s = st.gameClientSocket /\ st.activePlayer # NoPlayer
  THEN processEndOfRound(st, score)
  ELSE st

\* the updateScore handler with a fault: the listener is on every socket and
\* `socket.id === gameClientSocket?.id` (line 190) is left out.
onUpdateScore_AnySender(st, s, score) ==
  IF st.activePlayer # NoPlayer
  THEN LET s1 == [st EXCEPT !.activePlayer.score = score]
       IN  Emit(s1, s1.activePlayer.id, "scoreUpdate", score, 0)
  ELSE st

\* the updateScore handler with a fault: io.emit('scoreUpdate', ...) in place of
\* io.to(activePlayer.id).emit (line 193), so every session is sent the score.
onUpdateScore_ToAll(st, s, score) ==
  IF s = st.gameClientSocket /\ st.activePlayer # NoPlayer
  THEN LET s1 == [st EXCEPT !.activePlayer.score = score]
       IN  Emit(s1, Broadcast, "scoreUpdate", score, 0)
  ELSE st

\* socket.on('updateScore', ...), a listener only the registered game client has
onUpdateScore(st, s, score) ==
  IF s = st.gameClientSocket /\ st.activePlayer # NoPlayer
  THEN LET s1 == [st EXCEPT !.activePlayer.score = score]
       IN  Emit(s1, s1.activePlayer.id, "scoreUpdate", score, 0)
  ELSE st

\* the setInterval callback of startRound
onCountdown(st) ==
  IF st.activePlayer # NoPlayer
  THEN Emit(st, st.activePlayer.id, "timeUpdate", 0, 0)
  ELSE st

\* ---- timers --------------------------------------------------------------
\* Pending timers of one duration fire in creation order.  A prepare timer
\* (3 s) created before a round timer (30 s) fires before it; one created
\* after it may fire before or after it.
CanFire(ts, i) ==
  /\ \A j \in 1 .. (i - 1) : ts[j].kind # ts[i].kind
  /\ ts[i].kind = "round" => \A j \in 1 .. (i - 1) : ts[j].kind # "prepare"

RemoveAt(seq, i) == SubSeq(seq, 1, i - 1) \o SubSeq(seq, i + 1, Len(seq))

\* Players that joinGame may still bring to a round timer.
Pending == Len(playerQueue) + Len(timers)

\* ---- actions -------------------------------------------------------------
Init ==
  /\ connected = {}
  /\ closed = {}
  /\ playerQueue = <<>>
  /\ activePlayer = NoPlayer
  /\ timers = <<>>
  /\ roundTimer = Null
  /\ gameClientSocket = Null
  /\ countdownTimer = FALSE
  /\ event = Event("listen", Null)
  /\ emitted = <<>>
  /\ lastQueueUpdate = [s \in Sockets |-> NoUpdate]
  /\ finalScoreRequested = FALSE
  /\ roundReported = FALSE
  /\ lastKnownScore = 0
  /\ unserved = <<>>

\* io.on('connection', ...): a new socket, with the next unused id
Connect ==
  \E s \in Sockets :
    /\ s = Cardinality(connected \cup closed) + 1
    /\ Commit(Event("connection", s), Cur, {})

Register ==
  \E s \in connected, client_type \in ClientTypes :
    LET r == onRegister(Cur, s, client_type)
    IN  Commit(Event("register", s), r.st, IF r.drop THEN {s} ELSE {})

JoinGame ==
  \E s \in connected :
    /\ Pending < MaxPending
    /\ Commit(Event("joinGame", s), onJoinGame(Cur, s), {})

Move ==
  \E s \in connected :
    Commit(Event("move", s), onMove(Cur, s), {})

EndGame ==
  \E s \in connected :
    Commit(Event("endGame", s), onEndGame(Cur, s), {})

SubmitFinalScore ==
  \E s \in connected, score \in Scores :
    Commit(Event("submitFinalScore", s), onSubmitFinalScore(Cur, s, score), {})

UpdateScore ==
  \E s \in connected, score \in Scores :
    Commit(Event("updateScore", s), onUpdateScore(Cur, s, score), {})

Disconnect ==
  \E s \in connected :
    Commit(Event("disconnect", s), onDisconnect(Cur, s), {s})

\* setTimeout(() => startRound(player), PREPARE_DURATION_MS) fires
PrepareElapsed ==
  \E i \in 1 .. Len(timers) :
    /\ timers[i].kind = "prepare"
    /\ CanFire(timers, i)
    /\ Commit(Event("prepareElapsed", Null),
              startRound([Cur EXCEPT !.timers = RemoveAt(@, i)], timers[i].player), {})

\* setTimeout(handleTimeUp, ROUND_DURATION_MS) fires
RoundElapsed ==
  \E i \in 1 .. Len(timers) :
    /\ timers[i].kind = "round"
    /\ CanFire(timers, i)
    /\ Commit(Event("roundElapsed", Null),
              handleTimeUp([Cur EXCEPT !.timers = RemoveAt(@, i)]), {})

\* the 1 s interval fires
Countdown ==
  /\ countdownTimer
  /\ Commit(Event("countdown", Null), onCountdown(Cur), {})

Next ==
  \/ Connect
  \/ Register
  \/ JoinGame
  \/ Move
  \/ EndGame
  \/ SubmitFinalScore
  \/ UpdateScore
  \/ Disconnect
  \/ PrepareElapsed
  \/ RoundElapsed
  \/ Countdown

Spec == Init /\ [][Next]_vars

\* ---- sanity ---------------------------------------------------------------
TypeOK ==
  /\ connected \subseteq Sockets
  /\ closed \subseteq Sockets
  /\ connected \cap closed = {}
  /\ activePlayer \in [id : 0 .. MaxSockets, score : Scores]
  /\ gameClientSocket \in {Null} \cup connected
  /\ roundTimer = Null \/ \E i \in 1 .. Len(timers) :
                            timers[i].kind = "round" /\ timers[i].handle = roundTimer
  /\ Len(playerQueue) + Len(timers) <= MaxPending

\* ---- notifications of a step ------------------------------------------------
Sent(out, type) == SelectSeq(out, LAMBDA m : m.type = type)
HasSent(out, type) == \E i \in 1 .. Len(out) : out[i].type = type
IsActive == activePlayer # NoPlayer
FromGameClient(e) == gameClientSocket # Null /\ e.socket = gameClientSocket

\* The module-level variables of server.ts that the handlers assign.
ServerState ==
  <<playerQueue, activePlayer, timers, roundTimer, gameClientSocket, countdownTimer>>

\* Sessions with a preparation countdown pending (setTimeout of prepareRound).
Preparing ==
  {timers[i].player.id : i \in {j \in 1 .. Len(timers) : timers[j].kind = "prepare"}}

\* Sessions that have a round in progress: preparing (countdown pending) or active.
InRound ==
  {timers[i].player.id : i \in {j \in 1 .. Len(timers) : timers[j].kind = "prepare"}}
    \cup (IF IsActive THEN {activePlayer.id} ELSE {})

\* ---- claims ---------------------------------------------------------------

\* C1: the session that holds the round (activePlayer) is never in the waiting
\* queue (playerQueue).
C1_ActiveNotInQueue == IsActive => ~InQueue(playerQueue, activePlayer.id)

\* C2: at most one requester is in a round at a time: while one session is
\* preparing or active, no other session is preparing or active.
C2_OneRequesterInRound == Cardinality(InRound) <= 1

\* C3: the waiting queue never holds two entries with the same session identity.
C3_NoDuplicates ==
  \A i, j \in 1 .. Len(playerQueue) : i # j => playerQueue[i].id # playerQueue[j].id

\* C4: the position last reported by queueUpdate to each waiting requester is its
\* current 1-based index in the queue.
C4_ReportedPositions ==
  \A i \in 1 .. Len(playerQueue) : lastQueueUpdate[playerQueue[i].id].position = i

\* Where C4 fails, the queue holds a session twice (the case of C3).
PositionsUnlessDuplicates == C3_NoDuplicates => C4_ReportedPositions

\* C5: settlement is idempotent.  Calling processEndOfRound a second time right
\* after a first call, with the same or another score, changes nothing and
\* emits nothing.
C5_SettlementIdempotent ==
  \A v1, v2 \in Scores :
    LET first == [processEndOfRound(Cur, v1) EXCEPT !.out = <<>>]
    IN  processEndOfRound(first, v2) = first

\* C5 witness: a settlement has just run with a game client bound and entries
\* still in the queue, so a second run would have something to pop and emit.
C5_Witness ==
  /\ HasSent(emitted, "gameOver")
  /\ gameClientSocket # Null
  /\ Len(playerQueue) > 0

\* C6: a final-score report for a round that the game client's report has
\* already finalized, handled once the next requester is active, does not
\* finalize the next requester's round or change its score.
C6_StaleReportIgnored ==
  [][(roundReported /\ IsActive /\ activePlayer.id \in connected
        /\ event'.type = "submitFinalScore" /\ FromGameClient(event'))
       => activePlayer' = activePlayer]_vars

\* C7: a submitFinalScore from the bound game client handled while no final
\* score has been requested for the current round (the round is Active, or no
\* round is active) is ignored.
C7_ReportNeedsRequest ==
  [][(~finalScoreRequested /\ event'.type = "submitFinalScore"
        /\ FromGameClient(event'))
       => /\ UNCHANGED <<playerQueue, activePlayer, timers, roundTimer>>
          /\ emitted' = <<>>]_vars

\* C8: when a round is finalized while the queue is non-empty, that step removes
\* the front entry, starts its preparation countdown and sends prepareToPlay to
\* it and to nobody else, and sends no yourTurn.
C8_NextFromFront ==
  [][(HasSent(emitted', "gameOver") /\ Len(playerQueue) > 0)
       => /\ playerQueue' = Tail(playerQueue)
          /\ Sent(emitted', "prepareToPlay")
               = <<Msg(Head(playerQueue).id, "prepareToPlay", 0, 0)>>
          /\ ~HasSent(emitted', "yourTurn")
          /\ Len(timers') > 0
          /\ timers'[Len(timers')] = PrepareTimer(Head(playerQueue))
          /\ Len(SelectSeq(timers', LAMBDA x : x.kind = "prepare"))
               = Len(SelectSeq(timers, LAMBDA x : x.kind = "prepare")) + 1]_vars

\* C8 witness: a round was finalized and, with two sessions waiting, the next
\* one was sent prepareToPlay while the other stays queued.
C8_Witness ==
  /\ HasSent(emitted, "gameOver")
  /\ HasSent(emitted, "prepareToPlay")
  /\ Len(playerQueue) > 0
  /\ \E i \in 1 .. Len(timers) :
        timers[i].kind = "prepare" /\ timers[i].player.id # playerQueue[1].id

\* C9: requesters are served in arrival order.  A session that was enqueued
\* and has not been served since is sent yourTurn only when no other connected
\* session was enqueued before it and is still unserved.
C9_ArrivalOrder ==
  [][\A k \in 1 .. Len(emitted') :
       (emitted'[k].type = "yourTurn"
          /\ \E i \in 1 .. Len(unserved) : unserved[i] = emitted'[k].to)
       => unserved[1] = emitted'[k].to]_vars

\* C10: when the bound game client disconnects while a requester is active, that
\* step finalizes the round with the last-known score: one gameOver with that
\* score goes to the holder, the holder and the game client binding are cleared,
\* and no requestFinalScore is emitted.
C10_ResourceDisconnect ==
  [][(gameClientSocket # Null /\ gameClientSocket \in closed' /\ IsActive)
       => /\ Sent(emitted', "gameOver")
               = <<Msg(activePlayer.id, "gameOver", lastKnownScore, 0)>>
          /\ activePlayer' = NoPlayer
          /\ gameClientSocket' = Null
          /\ roundTimer' = Null
          /\ ~HasSent(emitted', "requestFinalScore")]_vars

\* C10 witness: a socket other than the holder disconnected and the holder was
\* sent gameOver with a score an updateScore had set.
C10_Witness ==
  /\ event.type = "disconnect"
  /\ gameClientSocket = Null
  /\ \E i \in 1 .. Len(emitted) :
        /\ emitted[i].type = "gameOver"
        /\ emitted[i].to # event.socket
        /\ emitted[i].a > 0

\* C11: when the round timer fires while a requester is active and no game client
\* is bound, that step finalizes the round with the last-known score (0 when no
\* updateScore was accepted in the round): one gameOver with that score goes to
\* the holder, the holder is cleared, and no requestFinalScore is emitted.
C11_DeadlineNoResource ==
  [][(event'.type = "roundElapsed" /\ gameClientSocket = Null /\ IsActive)
       => /\ Sent(emitted', "gameOver")
               = <<Msg(activePlayer.id, "gameOver", lastKnownScore, 0)>>
          /\ activePlayer' = NoPlayer
          /\ roundTimer' = Null
          /\ ~HasSent(emitted', "requestFinalScore")
          /\ ~HasSent(emitted', "recordGameSession")]_vars

\* C11 witness: the round timer fired with no game client bound and the holder
\* was sent gameOver.
C11_Witness ==
  /\ event.type = "roundElapsed"
  /\ gameClientSocket = Null
  /\ HasSent(emitted, "gameOver")
  /\ ~HasSent(emitted, "requestFinalScore")

\* C12: when the active requester disconnects, that step finalizes its round
\* with the last-known score, with or without a game client bound: one gameOver
\* with that score is emitted for the holder, the holder is cleared, the front of
\* the queue (if any) starts preparing, and no requestFinalScore is emitted.
C12_HolderDisconnect ==
  [][(event'.type = "disconnect" /\ IsActive /\ event'.socket = activePlayer.id)
       => /\ Sent(emitted', "gameOver")
               = <<Msg(activePlayer.id, "gameOver", lastKnownScore, 0)>>
          /\ activePlayer' = NoPlayer
          /\ ~HasSent(emitted', "requestFinalScore")
          /\ Len(playerQueue) > 0 =>
               /\ playerQueue' = Tail(playerQueue)
               /\ Sent(emitted', "prepareToPlay")
                    = <<Msg(Head(playerQueue).id, "prepareToPlay", 0, 0)>>]_vars

C14_QueuedDisconnect ==
  [][\A s \in Sockets :
       (/\ event'.type = "disconnect"
        /\ event'.socket = s
        /\ InQueue(playerQueue, s)
        /\ s # activePlayer.id
        /\ s # gameClientSocket)
       => /\ ~InQueue(playerQueue', s)
          /\ playerQueue' = SelectSeq(playerQueue, LAMBDA p : p.id # s)
          /\ UNCHANGED <<activePlayer, timers, roundTimer, gameClientSocket>>
          /\ emitted' = [i \in 1 .. Len(playerQueue') |->
                           Msg(playerQueue'[i].id, "queueUpdate", i, Len(playerQueue'))]]_vars

\* Where C14 fails, the disconnecting session is in the queue more than once
\* (the case of C3): with a single entry the step does all that C14 says.
QueuedDisconnectUnlessDuplicates ==
  [][\A s \in Sockets :
       (/\ event'.type = "disconnect"
        /\ event'.socket = s
        /\ Cardinality({i \in 1 .. Len(playerQueue) : playerQueue[i].id = s}) = 1
        /\ s # activePlayer.id
        /\ s # gameClientSocket)
       => /\ ~InQueue(playerQueue', s)
          /\ playerQueue' = SelectSeq(playerQueue, LAMBDA p : p.id # s)
          /\ UNCHANGED <<activePlayer, timers, roundTimer, gameClientSocket>>
          /\ emitted' = [i \in 1 .. Len(playerQueue') |->
                           Msg(playerQueue'[i].id, "queueUpdate", i, Len(playerQueue'))]]_vars

\* C15: a gameAction is emitted only by a step that handles a move sent by the
\* session that is activePlayer, and goes to the game client only; a move from
\* any other session changes no server state and emits nothing; no move changes
\* the server state.
C15_MoveOnlyFromHolder ==
  [][/\ HasSent(emitted', "gameAction")
          => /\ event'.type = "move"
             /\ IsActive
             /\ event'.socket = activePlayer.id
             /\ gameClientSocket # Null
             /\ emitted' = <<Msg(gameClientSocket, "gameAction", 0, 0)>>
     /\ (event'.type = "move" /\ ~(IsActive /\ event'.socket = activePlayer.id))
          => emitted' = <<>>
     /\ event'.type = "move" => UNCHANGED ServerState]_vars

\* C15 witness: the holder's move was forwarded to the game client while another
\* session waits in the queue.
C15_Witness ==
  /\ event.type = "move"
  /\ emitted = <<Msg(gameClientSocket, "gameAction", 0, 0)>>
  /\ event.socket = activePlayer.id
  /\ Len(playerQueue) > 0
  /\ playerQueue[1].id # activePlayer.id

\* C16: an endGame from a session that is not activePlayer changes no server state
\* and emits nothing; an endGame from activePlayer clears the round timer and
\* either asks the bound game client for the final score or, with no game
\* client, finalizes the round with the holder's score.
C16_EndGameOnlyFromHolder ==
  [][event'.type = "endGame"
       => IF IsActive /\ event'.socket = activePlayer.id
          THEN /\ roundTimer' = Null
               /\ IF gameClientSocket # Null
                  THEN /\ emitted' = <<Msg(gameClientSocket, "requestFinalScore", 0, 0)>>
                       /\ activePlayer' = activePlayer
                  ELSE /\ Sent(emitted', "gameOver")
                            = <<Msg(activePlayer.id, "gameOver", activePlayer.score, 0)>>
                       /\ activePlayer' = NoPlayer
          ELSE /\ UNCHANGED ServerState
               /\ emitted' = <<>>]_vars

\* C16 witness: a session waiting in the queue sent endGame during another
\* session's round, and nothing was emitted.
C16_Witness ==
  /\ event.type = "endGame"
  /\ IsActive
  /\ event.socket # activePlayer.id
  /\ InQueue(playerQueue, event.socket)
  /\ roundTimer # Null
  /\ emitted = <<>>

\* C17: a submitFinalScore or updateScore from a session that is not the bound
\* game client changes no server state (no score, no holder, no queue, no timer)
\* and emits nothing.
C17_ScoresOnlyFromGameClient ==
  [][(event'.type \in {"submitFinalScore", "updateScore"} /\ ~FromGameClient(event'))
       => /\ UNCHANGED ServerState
          /\ emitted' = <<>>]_vars

\* C17 witness: the holder itself sent a score message while a game client is
\* bound, and nothing was emitted.
C17_Witness ==
  /\ event.type \in {"submitFinalScore", "updateScore"}
  /\ IsActive
  /\ gameClientSocket # Null
  /\ event.socket = activePlayer.id
  /\ event.socket # gameClientSocket
  /\ emitted = <<>>

\* C18: while a game client is bound, a register(game_client) from any connected
\* session is rejected: the handler disconnects the sender, and the bound game
\* client is the same session after the attempt as before it.
C18_SecondResourceRejected ==
  gameClientSocket # Null
    => \A s \in connected :
         LET r == onRegister(Cur, s, "game_client")
         IN  /\ r.drop
             /\ r.st.gameClientSocket = gameClientSocket

\* Where C18 fails, the sender is the bound game client itself: a
\* register(game_client) from any other session leaves the binding as it is.
RejectedUnlessSelf ==
  gameClientSocket # Null
    => \A s \in connected \ {gameClientSocket} :
         LET r == onRegister(Cur, s, "game_client")
         IN  /\ r.drop
             /\ r.st.gameClientSocket = gameClientSocket

\* C19: the bound game client is never a requester as well: it is not in the
\* queue, not preparing and not the active holder.
C19_OneRole ==
  gameClientSocket # Null
    => /\ ~InQueue(playerQueue, gameClientSocket)
       /\ gameClientSocket \notin InRound

\* C20: a register step that binds a session other than the holder as game
\* client while a requester is active sends the new game client roundStart for
\* that requester.
C20_LateResourceGetsContext ==
  [][(/\ event'.type = "register"
      /\ gameClientSocket = Null
      /\ gameClientSocket' # Null
      /\ IsActive
      /\ event'.socket # activePlayer.id)
       => \E i \in 1 .. Len(emitted') :
            emitted'[i] = Msg(gameClientSocket', "roundStart", activePlayer.id, 0)]_vars

\* C21: the connectionStatus sent in reply to register(web_controller) reports the
\* game as active exactly when some requester is preparing or is the active
\* holder (the round is not Idle).
C21_StatusNonIdle ==
  [][(event'.type = "register" /\ HasSent(emitted', "connectionStatus"))
       => emitted' = <<Msg(event'.socket, "connectionStatus",
                           IF InRound # {} THEN 1 ELSE 0, 0)>>]_vars

\* C22: a joinGame from a session that is not the game client, handled while a
\* requester is active or the queue is non-empty, appends the sender at the tail
\* of the queue and sends it one queueUpdate whose position and total are the
\* new queue length; the holder, its score, the timers and the earlier entries
\* are unchanged and nothing else is emitted.
C22_JoinAppends ==
  [][(/\ event'.type = "joinGame"
      /\ event'.socket # gameClientSocket
      /\ (IsActive \/ Len(playerQueue) > 0))
       => /\ playerQueue' = Append(playerQueue, Player(event'.socket))
          /\ emitted' = <<Msg(event'.socket, "queueUpdate",
                              Len(playerQueue) + 1, Len(playerQueue) + 1)>>
          /\ UNCHANGED <<activePlayer, timers, roundTimer, gameClientSocket,
                         countdownTimer>>]_vars

\* C22 witness: a session joined behind another waiting session during a round
\* and was told position 2 of 2.
C22_Witness ==
  /\ event.type = "joinGame"
  /\ IsActive
  /\ Len(playerQueue) = 2
  /\ playerQueue[1].id # event.socket
  /\ playerQueue[2].id = event.socket
  /\ emitted = <<Msg(event.socket, "queueUpdate", 2, 2)>>

\* C23: the preparation timer of a session is cancelled when the session
\* disconnects: after the step in which a preparing session disconnects, no
\* preparation timer is pending for it (so it is never made the holder).
C23_PrepareCancelled ==
  [][\A s \in Sockets :
       (event'.type = "disconnect" /\ event'.socket = s /\ s \in Preparing)
       => s \notin Preparing']_vars

\* C24: when a round is finalized, no round-deadline timer stays pending, so none
\* can fire in a later requester's round.
C24_DeadlineCancelled ==
  [][HasSent(emitted', "gameOver")
       => \A i \in 1 .. Len(timers') : timers'[i].kind # "round"]_vars

\* C25: when the round timer and the holder's endGame both happen in one round,
\* one right after the other in either order, the second one emits no
\* requestFinalScore and changes nothing.
C25_LaterIsNoOp ==
  [][(/\ HasSent(emitted, "requestFinalScore")
      /\ IsActive
      /\ \/ event.type = "roundElapsed" /\ event'.type = "endGame"
                                        /\ event'.socket = activePlayer.id
         \/ event.type = "endGame" /\ event'.type = "roundElapsed")
       => /\ ~HasSent(emitted', "requestFinalScore")
          /\ activePlayer' = activePlayer]_vars

\* C28: when the bound game client disconnects after requestFinalScore was sent
\* for the holder's round and before a report ended it, that step finalizes the
\* round with the last-known score: one gameOver with that score goes to the
\* holder, the holder and the binding are cleared, and the front of the queue
\* starts preparing or, with an empty queue, gameAvailable is broadcast.
C28_ResourceLostWhileSettling ==
  [][(/\ finalScoreRequested
      /\ IsActive
      /\ gameClientSocket # Null
      /\ gameClientSocket \in closed')
       => /\ Sent(emitted', "gameOver")
               = <<Msg(activePlayer.id, "gameOver", lastKnownScore, 0)>>
          /\ activePlayer' = NoPlayer
          /\ gameClientSocket' = Null
          /\ ~HasSent(emitted', "requestFinalScore")
          /\ IF Len(playerQueue) > 0
             THEN /\ playerQueue' = Tail(playerQueue)
                  /\ Sent(emitted', "prepareToPlay")
                       = <<Msg(Head(playerQueue).id, "prepareToPlay", 0, 0)>>
             ELSE /\ playerQueue' = <<>>
                  /\ HasSent(emitted', "gameAvailable")]_vars

\* C28 witness: a round with a score above 0 awaits the game client's report,
\* another session waits in the queue, and the game client's disconnect ends
\* the round.
C28_Witness ==
  /\ finalScoreRequested
  /\ IsActive
  /\ gameClientSocket \in connected
  /\ lastKnownScore > 0
  /\ Len(playerQueue) > 0
  /\ HasSent(onDisconnect(Cur, gameClientSocket).out, "gameOver")

\* C29: once requestFinalScore has been sent for the holder's round, an
\* updateScore does not change the holder's score (the fallback of that round's
\* settlement).
C29_FallbackFrozen ==
  [][(/\ finalScoreRequested
      /\ IsActive
      /\ activePlayer.id \in connected
      /\ event'.type = "updateScore")
       => activePlayer' = activePlayer]_vars

\* C30: a round starts from score 0: in the step that makes a requester the
\* holder (yourTurn) its score is 0, and the players waiting in the queue or
\* preparing hold score 0, whatever updateScore and submitFinalScore did before.
C30_CleanScore ==
  /\ [][HasSent(emitted', "yourTurn")
          => /\ IsActive'
             /\ activePlayer'.score = 0
             /\ lastKnownScore' = 0]_vars
  /\ [](/\ \A i \in 1 .. Len(playerQueue) : playerQueue[i].score = 0
        /\ \A i \in 1 .. Len(timers) : timers[i].player.score = 0)

\* C30 witness: a round is active with a score above 0 while a preparation is
\* pending, and the timer's startRound gives the next holder score 0.
C30_Witness ==
  /\ IsActive
  /\ activePlayer.score > 0
  /\ \E i \in 1 .. Len(timers) :
        /\ timers[i].kind = "prepare"
        /\ CanFire(timers, i)
        /\ startRound(Cur, timers[i].player).activePlayer.score = 0

\* ---- fairness ---------------------------------------------------------------
\* Weak fairness of an action A is []<>(~ENABLED <<A>>_vars) \/ []<><<A>>_vars.
\* It is written out below with the enabling condition as a state predicate and
\* the step recognized by the event it handles (a timer step always changes
\* `timers`, and an answer of the game client ends the round).
PrepareEnabled ==
  \E i \in 1 .. Len(timers) : timers[i].kind = "prepare" /\ CanFire(timers, i)

RoundEnabled ==
  \E i \in 1 .. Len(timers) : timers[i].kind = "round" /\ CanFire(timers, i)

\* A requestFinalScore is outstanding for the holder's round at the game client.
AnswerEnabled == finalScoreRequested /\ IsActive /\ gameClientSocket # Null

\* Node fires every pending timer.
TimersFire ==
  /\ []<>(~PrepareEnabled) \/ []<><<event'.type = "prepareElapsed">>_vars
  /\ []<>(~RoundEnabled) \/ []<><<event'.type = "roundElapsed">>_vars

\* The game client answers an outstanding requestFinalScore: it sends
\* submitFinalScore, or its connection closes.
ResourceAnswers ==
  \/ []<>(~AnswerEnabled)
  \/ []<><<AnswerEnabled /\ event'.type \in {"submitFinalScore", "disconnect"}
                         /\ event'.socket = gameClientSocket>>_vars

\* The steps of Next, with joinGame bounded by LivePending.
BoundedJoinGame == Pending < LivePending /\ JoinGame

FairNext ==
  \/ Connect
  \/ Register
  \/ BoundedJoinGame
  \/ Move
  \/ EndGame
  \/ SubmitFinalScore
  \/ UpdateScore
  \/ Disconnect
  \/ PrepareElapsed
  \/ RoundElapsed
  \/ Countdown

\* Timers fire and the game client answers; nothing is assumed of the requesters.
FairSpec == Init /\ [][FairNext]_vars /\ TimersFire /\ ResourceAnswers

\* C26: a round that waits for the game client's answer to requestFinalScore
\* has a timer pending, so that it can be finalized when only timers fire and
\* the game client stays silent.
C26_SilentResourceCannotStall ==
  (AnswerEnabled /\ activePlayer.id \in connected) => Len(timers) > 0

\* C27: under FairSpec, a session that waits in the queue is sent prepareToPlay
\* unless it disconnects first, and a session that was sent prepareToPlay is
\* sent yourTurn.
C27_QueuedIsServed ==
  \A s \in Sockets :
    /\ (InQueue(playerQueue, s) /\ s \in connected)
         ~> (s \notin connected \/ Msg(s, "prepareToPlay", 0, 0) \in
                                      {emitted[i] : i \in 1 .. Len(emitted)})
    /\ (s \in Preparing)
         ~> (Msg(s, "yourTurn", 0, 0) \in {emitted[i] : i \in 1 .. Len(emitted)})

\* C27 witness: the game client's answer ended a round and the session at the
\* front of the queue, still connected, was sent prepareToPlay.
C27_Witness ==
  /\ event.type = "submitFinalScore"
  /\ HasSent(emitted, "gameOver")
  /\ \E i \in 1 .. Len(emitted) :
        /\ emitted[i].type = "prepareToPlay"
        /\ emitted[i].to \in connected
        /\ emitted[i].to \in Preparing

\* C31: an updateScore from the bound game client while a requester is active
\* sets the holder's score to the given value and emits one scoreUpdate with
\* that value to the holder and nothing else; the holder's identity, the queue,
\* the timers and the binding are unchanged.  With no requester active it
\* changes nothing and emits nothing.
C31_UpdateScoreFrame ==
  /\ [][(event'.type = "updateScore" /\ FromGameClient(event'))
          => IF IsActive
             THEN /\ activePlayer'.id = activePlayer.id
                  /\ emitted' = <<Msg(activePlayer.id, "scoreUpdate",
                                      activePlayer'.score, 0)>>
                  /\ UNCHANGED <<playerQueue, timers, roundTimer, gameClientSocket,
                                 countdownTimer>>
             ELSE /\ UNCHANGED ServerState
                  /\ emitted' = <<>>]_vars
  /\ []((IsActive /\ gameClientSocket # Null)
          => \A v \in Scores :
               LET r == onUpdateScore(Cur, gameClientSocket, v)
               IN  /\ r.activePlayer = [id |-> activePlayer.id, score |-> v]
                   /\ r.out = <<Msg(activePlayer.id, "scoreUpdate", v, 0)>>)

\* C31 witness: the game client's updateScore raised the holder's score and the
\* holder was sent scoreUpdate, while another session waits in the queue.
C31_Witness ==
  /\ event.type = "updateScore"
  /\ event.socket = gameClientSocket
  /\ IsActive
  /\ activePlayer.score = MaxScore
  /\ emitted = <<Msg(activePlayer.id, "scoreUpdate", MaxScore, 0)>>
  /\ Len(playerQueue) > 0
  /\ roundTimer # Null

\* C32: every step that finalizes a round (emits gameOver) emits exactly one
\* recordGameSession, carrying that round's holder and its final score.
C32_ResultDelivered ==
  [][HasSent(emitted', "gameOver")
       => \E to \in Sockets, v \in Scores :
            /\ Sent(emitted', "gameOver") = <<Msg(activePlayer.id, "gameOver", v, 0)>>
            /\ Sent(emitted', "recordGameSession")
                 = <<Msg(to, "recordGameSession", activePlayer.id, v)>>]_vars

\* Where C32 fails, no game client is bound when the round is finalized: with one
\* bound, the step emits one recordGameSession to it with the holder and the
\* final score.
DeliveredWhenBound ==
  [][(HasSent(emitted', "gameOver") /\ gameClientSocket' # Null)
       => \E v \in Scores :
            /\ Sent(emitted', "gameOver") = <<Msg(activePlayer.id, "gameOver", v, 0)>>
            /\ Sent(emitted', "recordGameSession")
                 = <<Msg(gameClientSocket', "recordGameSession", activePlayer.id, v)>>]_vars

\* C33: a step emits at most one gameOver, and it goes to the holder (the session
\* last sent yourTurn), which is not waiting in the queue.
C33_GameOverToHolder ==
  [][HasSent(emitted', "gameOver")
       => /\ IsActive
          /\ Len(Sent(emitted', "gameOver")) = 1
          /\ Sent(emitted', "gameOver")[1].to = activePlayer.id
          /\ activePlayer' = NoPlayer
          /\ ~InQueue(playerQueue, activePlayer.id)]_vars

\* Where C33 fails, the holder is in the queue as well (the case of C1): apart
\* from that, one gameOver goes to the holder and the holder is cleared, so the
\* next gameOver needs a new yourTurn.
GameOverUnlessHolderQueued ==
  [][HasSent(emitted', "gameOver")
       => /\ IsActive
          /\ Len(Sent(emitted', "gameOver")) = 1
          /\ Sent(emitted', "gameOver")[1].to = activePlayer.id
          /\ activePlayer' = NoPlayer]_vars

\* C34: the 1 s interval emits timeUpdate only to the holder and only while its
\* round is Active: nothing once requestFinalScore was sent for the round, and
\* nothing when no round is active.
C34_TimeUpdateOnlyActive ==
  [][event'.type = "countdown"
       => IF IsActive /\ ~finalScoreRequested
          THEN emitted' = <<Msg(activePlayer.id, "timeUpdate", 0, 0)>>
          ELSE emitted' = <<>>]_vars

\* Apart from the settling phase, C34 holds: a tick sends at most one timeUpdate,
\* to the holder, and nothing when there is no holder; no other step sends one.
TimeUpdateToHolder ==
  [][IF event'.type = "countdown" /\ IsActive
     THEN emitted' = <<Msg(activePlayer.id, "timeUpdate", 0, 0)>>
     ELSE ~HasSent(emitted', "timeUpdate")]_vars

\* The steps that send yourTurn: the preparation deadline of a session that was
\* sent prepareToPlay fires, one yourTurn goes to that session, and roundStart
\* naming it goes to the game client if one is bound.
YourTurnAtDeadline ==
  HasSent(emitted', "yourTurn")
    => /\ event'.type = "prepareElapsed"
       /\ \E t \in Preparing :
            /\ Sent(emitted', "yourTurn") = <<Msg(t, "yourTurn", 0, 0)>>
            /\ Sent(emitted', "roundStart")
                 = IF gameClientSocket # Null
                   THEN <<Msg(gameClientSocket, "roundStart", t, 0)>> ELSE <<>>

\* roundStart is sent in no other step: never with prepareToPlay.
RoundStartAtDeadline ==
  HasSent(emitted', "roundStart")
    => HasSent(emitted', "yourTurn") /\ ~HasSent(emitted', "prepareToPlay")

\* C35: every yourTurn is sent when the preparation deadline of its session
\* fires, and no other session was sent yourTurn since that session's
\* prepareToPlay (no other session holds the round at that moment); roundStart is
\* sent to the game client in that step only.
C35_PrepareBeforeTurn ==
  [][/\ YourTurnAtDeadline
     /\ RoundStartAtDeadline
     /\ HasSent(emitted', "yourTurn")
          => (IsActive => Sent(emitted', "yourTurn")[1].to = activePlayer.id)]_vars

\* Where C35 fails, two sessions are in a round at once (the case of C2): the
\* order of prepareToPlay, deadline, yourTurn and roundStart holds for each.
TurnAtDeadlineUnlessOverlap == [][YourTurnAtDeadline /\ RoundStartAtDeadline]_vars

\* The game client has just been bound while a round is active: the register
\* handler sent it nothing, so it was never sent roundStart for the holder.
BoundWithoutContext ==
  /\ event.type = "register" /\ gameClientSocket # Null /\ event.socket = gameClientSocket
  /\ IsActive /\ event.socket # activePlayer.id /\ emitted = <<>>

\* C36: the game client is sent gameAction or requestFinalScore only after a
\* roundStart for the current holder: one that was bound during the round and
\* has not been sent roundStart is sent neither by the next step.
C36_ContextBeforeTraffic ==
  [][BoundWithoutContext
       => /\ ~HasSent(emitted', "gameAction")
          /\ ~HasSent(emitted', "requestFinalScore")]_vars

\* A round timer is pending in the timer list t.
RoundTimerArmed(t) == \E i \in 1 .. Len(t) : t[i].kind = "round"

\* What a step that finalizes a round with an empty queue emits and leaves: no
\* prepareToPlay, gameAvailable to everyone, waitingForPlayers to the game client
\* if one is bound, and no holder.
EntersIdle ==
  /\ ~HasSent(emitted', "prepareToPlay")
  /\ Sent(emitted', "gameAvailable") = <<Msg(Broadcast, "gameAvailable", 0, 0)>>
  /\ Sent(emitted', "waitingForPlayers")
       = IF gameClientSocket' # Null
         THEN <<Msg(gameClientSocket', "waitingForPlayers", 0, 0)>> ELSE <<>>
  /\ activePlayer' = NoPlayer
  /\ playerQueue' = <<>>

\* C37: a step that finalizes a round while the queue is empty enters Idle, and
\* no round timer is armed afterwards.
C37_IdleWhenQueueEmpty ==
  [][(HasSent(emitted', "gameOver") /\ playerQueue = <<>>)
       => EntersIdle /\ ~RoundTimerArmed(timers') /\ roundTimer' = Null]_vars

\* Where C37 fails, the round timer was left armed (the case of C24): the rest
\* of the Idle entry holds.
IdleUnlessTimerLeft ==
  [][(HasSent(emitted', "gameOver") /\ playerQueue = <<>>) => EntersIdle]_vars

\* C38: the queue holds no entry of a session whose disconnect has been handled.
C38_NoEntryAfterDisconnect == \A s \in closed : ~InQueue(playerQueue, s)

\* C39: the total last reported by queueUpdate to each waiting requester is the
\* current length of the queue.
C39_ReportedTotals ==
  \A i \in 1 .. Len(playerQueue) :
    lastQueueUpdate[playerQueue[i].id].total = Len(playerQueue)
====
